---- MODULE Spec2Model ----
(***************************************************************************)
(* Model of src/app/page.tsx (FFXIV market page): the price fetcher        *)
(* fetchCurrentPrices with its listing reducer, and the response           *)
(* normalizer normalizeCurrentDataResponse (specification Spec); and the   *)
(* page around them, with the catalogue load, the debounced search,        *)
(* fetchPageData, paging and the server select (specification UISpec).     *)
(* The file holds the page twice (lines 1-531 and 532-1085) with the same  *)
(* logic; line numbers refer to the second copy.                           *)
(*                                                                         *)
(* JavaScript values are records tagged by kind (field t):                 *)
(*   undef, null, num (finite, field n), inf (Infinity, as JSON.parse      *)
(*   yields for 1e999), str (field s), bool (field b), arr (field a, a     *)
(*   sequence), obj (field keys: own keys in Object.values order, field f: *)
(*   key -> value).                                                        *)
(***************************************************************************)
EXTENDS Integers, Sequences, FiniteSets, Bags, TLC

\* ---------------------------------------------------------------- bounds
MaxListings == 3
MaxEntries == 2
MaxInflight == 1

\* ------------------------------------------------------ JavaScript values
Undef == [t |-> "undef"]
Null == [t |-> "null"]
Inf == [t |-> "inf"]
Num(n) == [t |-> "num", n |-> n]
Str(s) == [t |-> "str", s |-> s]
Bool(b) == [t |-> "bool", b |-> b]
Arr(a) == [t |-> "arr", a |-> a]
Obj(keys, f) == [t |-> "obj", keys |-> keys, f |-> f]

\* typeof v
TypeOf(v) ==
  CASE v.t = "undef" -> "undefined"
    [] v.t \in {"num", "inf"} -> "number"
    [] v.t = "str" -> "string"
    [] v.t = "bool" -> "boolean"
    [] OTHER -> "object"

\* ToBoolean(v): what `!v`, `v || w` and `if (v)` test
Truthy(v) ==
  CASE v.t \in {"undef", "null"} -> FALSE
    [] v.t = "num" -> v.n # 0
    [] v.t = "str" -> v.s # ""
    [] v.t = "bool" -> v.b
    [] OTHER -> TRUE

\* v.k raises a TypeError exactly when v is null or undefined
Throws(v) == v.t \in {"undef", "null"}

\* v.k for a v on which the read does not raise: an absent property reads
\* as undefined, and so does any property of a primitive
Get(v, k) ==
  IF v.t = "obj" /\ k \in DOMAIN v.f THEN v.f[k] ELSE Undef

\* a || b
Or(a, b) == IF Truthy(a) THEN a ELSE b

\* Array.isArray(v)
IsArray(v) == v.t = "arr"

\* Object.values(v) for the truthy non-array values the model passes: own
\* values in key order for an object, the characters of a string (the
\* model's strings are single characters), nothing for a number or boolean
ObjectValues(v) ==
  CASE v.t = "obj" -> [i \in 1..Len(v.keys) |-> v.f[v.keys[i]]]
    [] v.t = "str" -> <<v>>
    [] OTHER -> <<>>

\* ------------------------------------------------------------- helpers
\* safeNum(v, fallback = 0): v when it is a finite number, else 0
safeNum(v) ==
  IF TypeOf(v) = "number" /\ v.t = "num" THEN v.n ELSE 0

\* mutant: `<=` where the code has `<`
LessOrEqual(ppu, m) == IF m.t = "inf" THEN TRUE ELSE ppu <= m.n

\* ppu < m, for a finite ppu and a running minimum m that is Infinity or
\* a finite number
Less(ppu, m) == IF m.t = "inf" THEN TRUE ELSE ppu < m.n

\* the state of one entry's scan: the three running minima and their
\* provenances, and whether reading a listing raised
InitScan ==
  [minAll |-> Inf, minAllW |-> Str(""),
   minNQ |-> Inf, minNQW |-> Str(""),
   minHQ |-> Inf, minHQW |-> Str(""),
   threw |-> FALSE]

\* mutant: a lower overall minimum recorded without its provenance, which
\* stays that of the first accepted listing
UpdateAllKeepsWorld(acc, ppu, wName) ==
  IF Less(ppu, acc.minAll)
    THEN [acc EXCEPT !.minAll = Num(ppu),
                     !.minAllW = IF acc.minAll.t = "inf" THEN wName ELSE @]
    ELSE acc

\* mutant: the overall minimum assigned without the comparison
UpdateAllNoCompare(acc, ppu, wName) ==
  [acc EXCEPT !.minAll = Num(ppu), !.minAllW = wName]

\* the update of the overall minimum
UpdateAll(acc, ppu, wName) ==
  IF Less(ppu, acc.minAll)
    THEN [acc EXCEPT !.minAll = Num(ppu), !.minAllW = wName]
    ELSE acc

\* mutant: the quality flag ignored, every listing treated as NQ
UpdateQualityIgnoringHq(acc, l, ppu, wName) ==
  IF Less(ppu, acc.minNQ)
    THEN [acc EXCEPT !.minNQ = Num(ppu), !.minNQW = wName]
    ELSE acc

\* the update of the minimum of the listing's own quality
UpdateQuality(acc, l, ppu, wName) ==
  IF Truthy(Get(l, "hq"))
    THEN IF Less(ppu, acc.minHQ)
           THEN [acc EXCEPT !.minHQ = Num(ppu), !.minHQW = wName]
           ELSE acc
    ELSE IF Less(ppu, acc.minNQ)
           THEN [acc EXCEPT !.minNQ = Num(ppu), !.minNQW = wName]
           ELSE acc

\* mutant: `if (!ppu) continue` left out
ListingStepNoSkip(acc, l) ==
  IF Throws(l) THEN [acc EXCEPT !.threw = TRUE]
  ELSE LET ppu == safeNum(Get(l, "pricePerUnit"))
           wName == Or(Get(l, "worldName"), Str(""))
       IN UpdateQuality(UpdateAll(acc, ppu, wName), l, ppu, wName)

\* one iteration of `for (const l of listings)`
ListingStep(acc, l) ==
  IF Throws(l) THEN [acc EXCEPT !.threw = TRUE]
  ELSE LET ppu == safeNum(Get(l, "pricePerUnit")) IN
       IF ppu = 0 THEN acc
       ELSE LET wName == Or(Get(l, "worldName"), Str("")) IN
            UpdateQuality(UpdateAll(acc, ppu, wName), l, ppu, wName)

\* the listing loop from listing i on; a raise ends it
RECURSIVE ScanListings(_, _, _)
ScanListings(listings, i, acc) ==
  IF acc.threw \/ i > Len(listings) THEN acc
  ELSE ScanListings(listings, i + 1, ListingStep(acc, listings[i]))

\* mutant: the conversion of an unset minimum left out
UnsetKeepsInfinity(m) == m

\* minX === Infinity ? 0 : minX
Unset(m) == IF m.t = "inf" THEN Num(0) ELSE m

\* mutant: listingsFetched counts the listings that passed the filter
PriceInfoCountingAccepted(acc, listings, it) ==
  [minAll |-> Unset(acc.minAll), minAllWorld |-> acc.minAllW,
   minNQ |-> Unset(acc.minNQ), minNQWorld |-> acc.minNQW,
   minHQ |-> Unset(acc.minHQ), minHQWorld |-> acc.minHQW,
   listingsFetched |->
     Cardinality({i \in 1..Len(listings) :
                    safeNum(Get(listings[i], "pricePerUnit")) # 0}),
   lastUploadTime |-> Get(it, "lastUploadTime")]

\* the object stored by nextMap.set
PriceInfo(acc, listings, it) ==
  [minAll |-> Unset(acc.minAll), minAllWorld |-> acc.minAllW,
   minNQ |-> Unset(acc.minNQ), minNQWorld |-> acc.minNQW,
   minHQ |-> Unset(acc.minHQ), minHQWorld |-> acc.minHQW,
   listingsFetched |-> Len(listings),
   lastUploadTime |-> Get(it, "lastUploadTime")]

\* mutant: only the itemID spelling is read
ItemIdFirstSpellingOnly(it) == safeNum(Get(it, "itemID"))

\* safeNum(it.itemID || it.itemId || it.item_id)
ItemId(it) ==
  safeNum(Or(Or(Get(it, "itemID"), Get(it, "itemId")), Get(it, "item_id")))

\* Array.isArray(it.listings) ? it.listings : []
ListingsOf(it) ==
  IF IsArray(Get(it, "listings")) THEN Get(it, "listings").a ELSE <<>>

\* one iteration of `for (const it of entries)`: the entry is skipped
\* (continue), raises, or sets its aggregate
ReduceEntry(it) ==
  IF Throws(it) THEN [kind |-> "throw"]
  ELSE IF ItemId(it) = 0 THEN [kind |-> "skip"]
  ELSE LET listings == ListingsOf(it)
           acc == ScanListings(listings, 1, InitScan)
       IN IF acc.threw THEN [kind |-> "throw"]
          ELSE [kind |-> "set", id |-> ItemId(it),
                info |-> PriceInfo(acc, listings, it)]

\* new Map() and Map.set
EmptyMap == <<>>
MapSet(m, k, v) == [x \in DOMAIN m \cup {k} |-> IF x = k THEN v ELSE m[x]]

\* the entry loop from entry i on, filling nextMap; a raise leaves the loop
RECURSIVE ReduceEntries(_, _, _)
ReduceEntries(entries, i, nextMap) ==
  IF i > Len(entries) THEN [threw |-> FALSE, map |-> nextMap]
  ELSE LET r == ReduceEntry(entries[i]) IN
       CASE r.kind = "throw" -> [threw |-> TRUE, map |-> nextMap]
         [] r.kind = "skip" -> ReduceEntries(entries, i + 1, nextMap)
         [] OTHER -> ReduceEntries(entries, i + 1, MapSet(nextMap, r.id, r.info))

\* mutant: the typeof filter left out
FilterNothing(vs) == vs

\* values that pass .filter((v) => typeof v === "object")
RECURSIVE FilterObjects(_)
FilterObjects(vs) ==
  IF vs = <<>> THEN <<>>
  ELSE IF TypeOf(Head(vs)) = "object"
         THEN <<Head(vs)>> \o FilterObjects(Tail(vs))
         ELSE FilterObjects(Tail(vs))

normalizeCurrentDataResponse(data) ==
  IF ~Truthy(data) THEN <<>>
  ELSE IF Truthy(Get(data, "items"))
    THEN IF IsArray(Get(data, "items"))
           THEN Get(data, "items").a
           ELSE FilterObjects(ObjectValues(Get(data, "items")))
  ELSE IF Truthy(Get(data, "itemID")) \/ Truthy(Get(data, "listings"))
    THEN <<data>>
  ELSE <<>>

\* lines 769-817: normalize, then reduce into a fresh map
Reduce(data) == ReduceEntries(normalizeCurrentDataResponse(data), 1, EmptyMap)

\* ------------------------------------------------- upstream response bodies
\* sequences over S of length at most n
SeqsUpTo(S, n) == UNION {[1..k -> S] : k \in 0..n}

\* an object literal: the pairs <<key, value>> in order, a pair whose value
\* is Undef standing for an absent property
MkObj(pairs) ==
  LET present == SelectSeq(pairs, LAMBDA p : p[2].t # "undef")
      idx(k) == CHOOSE i \in 1..Len(present) : present[i][1] = k
  IN Obj([i \in 1..Len(present) |-> present[i][1]],
         [k \in {present[i][1] : i \in 1..Len(present)} |-> present[idx(k)][2]])

Listing(ppu, hq, w) ==
  MkObj(<< <<"pricePerUnit", ppu>>, <<"hq", hq>>, <<"worldName", w>> >>)

Entry(id, listings, time) ==
  MkObj(<< <<"itemID", id>>, <<"listings", listings>>,
           <<"lastUploadTime", time>> >>)

\* well-formed listings: a positive price, a quality flag, a world name
GoodListings ==
  {Listing(Num(1), Bool(FALSE), Str("A")), Listing(Num(1), Bool(FALSE), Str("B")),
   Listing(Num(2), Bool(FALSE), Str("A")), Listing(Num(1), Bool(TRUE), Str("A")),
   Listing(Num(2), Bool(TRUE), Str("B"))}

\* listings with a zero, infinite (1e999) or string price, with absent
\* quality and world, and a null in place of a listing
OddListings ==
  {Listing(Num(0), Bool(FALSE), Str("A")), Listing(Inf, Bool(TRUE), Str("A")),
   Listing(Str("1"), Bool(FALSE), Str("B")), Listing(Num(1), Undef, Undef),
   Null}

Listings == GoodListings \cup OddListings

\* entries of item 1 with every listing sequence up to MaxListings
RichEntries ==
  {Entry(Num(1), Arr(ls), Num(7)) : ls \in SeqsUpTo(Listings, MaxListings)}

\* entries that vary the identifier, the shape of `listings` and the entry
\* itself
OddEntries ==
  {Entry(Num(1), Arr(<<Listing(Num(2), Bool(FALSE), Str("A"))>>), Num(7)),
   Entry(Num(1), Arr(<<>>), Undef),
   Entry(Num(2), Arr(<<Listing(Num(1), Bool(TRUE), Str("B")),
                       Listing(Undef, Bool(FALSE), Str("A"))>>), Undef),
   Entry(Num(0), Arr(<<Listing(Num(1), Bool(FALSE), Str("A"))>>), Num(7)),
   Entry(Str("1"), Arr(<<Listing(Num(1), Bool(FALSE), Str("A"))>>), Num(7)),
   Entry(Inf, Arr(<<>>), Undef),
   Entry(Undef, Arr(<<Listing(Num(1), Bool(FALSE), Str("A"))>>), Undef),
   MkObj(<< <<"itemId", Num(1)>>, <<"lastUploadTime", Num(7)>> >>),
   MkObj(<< <<"itemID", Num(0)>>, <<"item_id", Num(1)>>,
            <<"listings", Listing(Num(1), Bool(FALSE), Str("A"))>> >>),
   Entry(Num(2), Arr(<<Null>>), Num(7)),
   Null,
   Num(5)}

\* { items: [...] }
ItemsArray(batch) == MkObj(<< <<"items", Arr(batch)>> >>)

\* { items: { k1: v1, k2: v2, ... } }
MapKeys == <<"k1", "k2", "k3", "k4">>
ItemsMapping(batch) ==
  MkObj(<< <<"items", Obj([i \in 1..Len(batch) |-> MapKeys[i]],
                          [k \in {MapKeys[i] : i \in 1..Len(batch)} |->
                             batch[CHOOSE i \in 1..Len(batch) : MapKeys[i] = k]])>> >>)

\* bodies of none of the three known shapes, or with a falsy marker field
OtherResponses ==
  {Null, Num(0), Num(5), Str("x"), Bool(TRUE),
   Arr(<<Entry(Num(1), Arr(<<>>), Undef)>>),
   MkObj(<< <<"other", Num(1)>> >>),
   MkObj(<< <<"itemID", Num(0)>> >>),
   MkObj(<< <<"itemID", Num(0)>>, <<"listings", Arr(<<>>)>> >>),
   MkObj(<< <<"listings", Null>> >>),
   MkObj(<< <<"items", Null>>, <<"itemID", Num(2)>>,
            <<"listings", Arr(<<Listing(Num(2), Bool(TRUE), Str("B"))>>)>> >>),
   MkObj(<< <<"items", Num(5)>>, <<"itemID", Num(2)>> >>),
   MkObj(<< <<"items", Str("x")>> >>),
   MkObj(<< <<"items", Bool(TRUE)>>, <<"listings", Arr(<<>>)>> >>)}

\* what res.json() can resolve to
Responses ==
  {ItemsArray(<<e>>) : e \in RichEntries}
    \cup {ItemsArray(b) : b \in SeqsUpTo(OddEntries, MaxEntries)}
    \cup {ItemsMapping(b) : b \in SeqsUpTo(OddEntries, MaxEntries)}
    \cup {e \in OddEntries : e.t = "obj"}
    \cup OtherResponses

\* ------------------------------------------------------------------ state
DEFAULT_DC == "Chocobo"
Worlds == {DEFAULT_DC, "Ifrit"}

\* the non-empty batches of identifiers fetchPageData passes, and the empty one
IdBatches == {<<>>, <<1, 2>>}

\* the body an earlier fetch (another world, another page) was answered with
StaleResponse ==
  ItemsArray(<<Entry(Num(3), Arr(<<Listing(Num(2), Bool(TRUE), Str("B"))>>), Num(5))>>)

VARIABLES
  data,          \* the body the market-data service answers with
  priceMap,      \* useState: Map<number, PriceInfo>
  priceLoading,  \* useState: boolean
  selectedWorld, \* useState: string
  page,          \* useState: number
  priceFetches,  \* the price requests in flight, a bag of [world, ids]
  entries,       \* `const entries` of the latest run of lines 769-817
  lastResult,    \* how the last price fetch ended: "none", "stored",
                 \* "fetchError" (network, status) or "TypeError" (raised
                 \* while reducing); the latter two are what the catch logs
  allMarketableIds, \* useState: number[]
  displayIds,    \* useState: number[], as [src, ids]: src names the array
                 \* object ("init": the useState initial value, "all": the
                 \* array held by allMarketableIds, "search": an array built
                 \* by a search), which is what React compares
  pageItems,     \* useState: MarketItem[], as the sequence of row ids
  isPageLoading, \* useState: boolean
  searchQuery,   \* useState: string, as a sequence of characters
  isSearching,   \* useState: boolean
  timers,        \* the pending setTimeout handlers of the search effect,
                 \* each with the searchQuery and allMarketableIds of its
                 \* closure and the time left before it is due
  idsFetch,      \* the catalogue request of initIds is in flight
  searchFetches, \* the search requests in flight, a bag of [q, all]
  itemFetches,   \* the item-sheet requests in flight, a bag of [world, ids]
  priceFrom,     \* the price request whose response priceMap was last set
                 \* from, NoRequest after setPriceMap(new Map())
  lastReply,     \* "notOk" when the last step consumed a response with a
                 \* non-OK status, else "none"
  quiet          \* time since searchQuery last changed, up to DEBOUNCE_MS

uivars ==
  <<allMarketableIds, displayIds, pageItems, isPageLoading, searchQuery,
    isSearching, timers, idsFetch, searchFetches, itemFetches, priceFrom,
    lastReply, quiet>>

vars ==
  <<data, priceMap, priceLoading, selectedWorld, page, priceFetches, entries,
    lastResult, uivars>>

NoRequest == [world |-> "", ids |-> <<>>]
NoReply == "none"
Noted(status) == IF status = "notOk" THEN status ELSE NoReply

\* the view state a price fetch can start from: the state after construction,
\* and the state left by an earlier fetch for another world and page
PriorStates ==
  {[priceMap |-> EmptyMap, selectedWorld |-> DEFAULT_DC, page |-> 1],
   [priceMap |-> Reduce(StaleResponse).map, selectedWorld |-> "Ifrit", page |-> 2]}

Init ==
  /\ data \in Responses
  /\ \E s \in PriorStates :
       /\ priceMap = s.priceMap
       /\ selectedWorld = s.selectedWorld
       /\ page = s.page
  /\ priceLoading = FALSE
  /\ priceFetches = EmptyBag
  /\ entries = <<>>
  /\ lastResult = "none"
  /\ allMarketableIds = <<>>
  /\ displayIds = [src |-> "init", ids |-> <<>>]
  /\ pageItems = <<>>
  /\ isPageLoading = FALSE
  /\ searchQuery = <<>>
  /\ isSearching = FALSE
  /\ timers = {}
  /\ idsFetch = FALSE
  /\ searchFetches = EmptyBag
  /\ itemFetches = EmptyBag
  /\ priceFrom = NoRequest
  /\ lastReply = NoReply
  /\ quiet = 0

\* setPriceLoading(true) and the request sent
StartPriceFetch(worldOrDc, itemIds) ==
  /\ priceLoading' = TRUE
  /\ priceFetches' =
       priceFetches (+) SetToBag({[world |-> worldOrDc, ids |-> itemIds]})

\* fetchCurrentPrices(worldOrDc, itemIds) up to `await fetch(url)`
FetchCurrentPrices(worldOrDc, itemIds) ==
  /\ itemIds # <<>>
  /\ BagCardinality(priceFetches) < MaxInflight
  /\ StartPriceFetch(worldOrDc, itemIds)
  /\ UNCHANGED <<data, priceMap, selectedWorld, page, entries, lastResult>>
  /\ UNCHANGED uivars

\* mutant: the new aggregates merged into the map held in state
ApplyResponseMerging(body) ==
  LET r == Reduce(body) IN
  /\ entries' = normalizeCurrentDataResponse(body)
  /\ priceMap' =
       IF r.threw THEN priceMap
       ELSE [x \in DOMAIN priceMap \cup DOMAIN r.map |->
               IF x \in DOMAIN r.map THEN r.map[x] ELSE priceMap[x]]
  /\ lastResult' = IF r.threw THEN "TypeError" ELSE "stored"
  /\ priceLoading' = FALSE

\* mutant: a response that arrives when the map holds aggregates is dropped
SetPriceMapIfEmpty(body) ==
  priceMap' = IF Reduce(body).threw \/ priceMap # EmptyMap THEN priceMap
              ELSE Reduce(body).map

\* setPriceMap(nextMap), not reached when the reduction raised
SetPriceMap(body) ==
  priceMap' = IF Reduce(body).threw THEN priceMap ELSE Reduce(body).map

\* the state written once the body arrived: setPriceMap(nextMap) unless the
\* reduction raised, and setPriceLoading(false) in the finally block
ApplyResponse(body) ==
  LET r == Reduce(body) IN
  /\ entries' = normalizeCurrentDataResponse(body)
  /\ SetPriceMap(body)
  /\ lastResult' = IF r.threw THEN "TypeError" ELSE "stored"
  /\ priceLoading' = FALSE

\* fetchCurrentPrices from the resolved fetch on, for an OK response
PriceResponseOk(req) ==
  /\ BagIn(req, priceFetches)
  /\ priceFetches' = priceFetches (-) SetToBag({req})
  /\ ApplyResponse(data)
  /\ UNCHANGED <<data, selectedWorld, page>>
  /\ UNCHANGED uivars

\* fetchCurrentPrices from a rejected fetch, a non-OK status or a body that
\* is not JSON: catch, then finally
PriceResponseFail(req) ==
  /\ BagIn(req, priceFetches)
  /\ priceFetches' = priceFetches (-) SetToBag({req})
  /\ priceLoading' = FALSE
  /\ lastResult' = "fetchError"
  /\ UNCHANGED <<data, priceMap, selectedWorld, page, entries>>
  /\ UNCHANGED uivars

Next ==
  \/ \E ids \in IdBatches : FetchCurrentPrices(selectedWorld, ids)
  \/ \E req \in BagToSet(priceFetches) : PriceResponseOk(req)
  \/ \E req \in BagToSet(priceFetches) : PriceResponseFail(req)

Spec == Init /\ [][Next]_vars

\* ------------------------------------------------------------- the page
\* The page around the price fetcher: the catalogue load (initIds), the
\* debounced search effect, fetchPageData with its effect, goToPage and the
\* two inputs.  A handler runs to its next `await` in one step together
\* with the effects its state updates trigger; the updates of one step are
\* one render (React batches them).

PAGE_SIZE == 100
DEBOUNCE_MS == 600

MaxRequests == 2
MaxSearches == 1
MaxRows == 1

Max(a, b) == IF a >= b THEN a ELSE b
Min(a, b) == IF a <= b THEN a ELSE b

\* the body of the marketable endpoint: one identifier more than a page
Catalogue == [i \in 1..(PAGE_SIZE + 1) |-> i]

\* what the search box can hold
Queries == {<<>>, <<" ">>, <<"a">>}

\* String.prototype.trim on a sequence of characters
RECURSIVE TrimStart(_)
TrimStart(q) == IF q # <<>> /\ Head(q) = " " THEN TrimStart(Tail(q)) ELSE q
RECURSIVE TrimEnd(_)
TrimEnd(q) ==
  IF q # <<>> /\ q[Len(q)] = " " THEN TrimEnd(SubSeq(q, 1, Len(q) - 1)) ELSE q
Trim(q) == TrimEnd(TrimStart(q))

\* !searchQuery.trim()
Blank(q) == Trim(q) = <<>>

\* Math.max(1, Math.ceil(displayIds.length / PAGE_SIZE))
totalPages == Max(1, (Len(displayIds.ids) + PAGE_SIZE - 1) \div PAGE_SIZE)

\* ids.slice(start, end) for 0 <= start <= end
Slice(ids, start, end) ==
  [i \in 1..(Min(end, Len(ids)) - Min(start, Len(ids))) |-> ids[start + i]]

\* displayIds.slice((page - 1) * PAGE_SIZE, (page - 1) * PAGE_SIZE + PAGE_SIZE)
TargetIds(ids, p) == Slice(ids, (p - 1) * PAGE_SIZE, (p - 1) * PAGE_SIZE + PAGE_SIZE)

\* what fetchPageData leaves alone when it does not run
viewVars == <<pageItems, isPageLoading, priceMap, priceFrom, itemFetches>>

\* fetchPageData up to `await fetch(...)`, run by its effect with the
\* displayIds d, page p and selectedWorld w of the new render
FetchPageData(d, p, w) ==
  LET targetIds == TargetIds(d.ids, p) IN
  IF Len(d.ids) = 0
    THEN /\ pageItems' = <<>>
         /\ UNCHANGED <<isPageLoading, priceMap, priceFrom, itemFetches>>
  ELSE IF targetIds = <<>>
    THEN /\ pageItems' = <<>>
         /\ isPageLoading' = FALSE
         /\ priceMap' = EmptyMap
         /\ priceFrom' = NoRequest
         /\ UNCHANGED itemFetches
  ELSE /\ BagCardinality(itemFetches) + BagCardinality(priceFetches)
            < MaxRequests
       /\ isPageLoading' = TRUE
       /\ priceMap' = EmptyMap
       /\ priceFrom' = NoRequest
       /\ itemFetches' =
            itemFetches (+) SetToBag({[world |-> w, ids |-> targetIds]})
       /\ UNCHANGED pageItems

\* the effect of lines 740-742: fetchPageData runs when displayIds (the
\* array object), page or selectedWorld changed in this render, of which
\* d, p and w are the new values
ViewEffect(changed, d, p, w) ==
  IF changed THEN FetchPageData(d, p, w) ELSE UNCHANGED viewVars

\* mutant: the effect without its cleanup, the earlier timer left pending
RestartTimerWithoutCleanup(q, all) ==
  timers' = timers \cup {[q |-> q, all |-> all, left |-> DEBOUNCE_MS]}

\* the search effect re-run for a changed searchQuery or allMarketableIds:
\* the cleanup clears the pending timer, the body sets a new one
RestartTimer(q, all) ==
  timers' = {[q |-> q, all |-> all, left |-> DEBOUNCE_MS]}

UIInit ==
  /\ data = Null
  /\ priceMap = EmptyMap
  /\ priceLoading = FALSE
  /\ selectedWorld = DEFAULT_DC
  /\ page = 1
  /\ priceFetches = EmptyBag
  /\ entries = <<>>
  /\ lastResult = "none"
  /\ allMarketableIds = <<>>
  /\ displayIds = [src |-> "init", ids |-> <<>>]
  /\ pageItems = <<>>
  /\ isPageLoading = FALSE
  /\ searchQuery = <<>>
  /\ isSearching = FALSE
  /\ timers = {[q |-> <<>>, all |-> <<>>, left |-> DEBOUNCE_MS]}
  /\ idsFetch = TRUE
  /\ searchFetches = EmptyBag
  /\ itemFetches = EmptyBag
  /\ priceFrom = NoRequest
  /\ lastReply = NoReply
  /\ quiet = 0

\* initIds from the resolved fetch on, for an OK response
InitIdsOk ==
  /\ idsFetch
  /\ idsFetch' = FALSE
  /\ allMarketableIds' = Catalogue
  /\ displayIds' = [src |-> "all", ids |-> Catalogue]
  /\ RestartTimer(searchQuery, Catalogue)
  /\ ViewEffect(TRUE, displayIds', page, selectedWorld)
  /\ lastReply' = NoReply
  /\ UNCHANGED <<data, entries, lastResult, priceLoading, priceFetches,
                 selectedWorld, page, searchQuery, isSearching, searchFetches,
                 quiet>>

\* initIds for a rejected fetch ("error") or a non-OK status ("notOk")
InitIdsFail(status) ==
  /\ idsFetch
  /\ idsFetch' = FALSE
  /\ lastReply' = Noted(status)
  /\ UNCHANGED <<data, priceMap, priceLoading, selectedWorld, page,
                 priceFetches, entries, lastResult, allMarketableIds,
                 displayIds, pageItems, isPageLoading, searchQuery,
                 isSearching, timers, searchFetches, itemFetches, priceFrom,
                 quiet>>

\* onChange of the search box: setSearchQuery(e.target.value)
SetSearchQuery(q) ==
  /\ q # searchQuery
  /\ searchQuery' = q
  /\ RestartTimer(q, allMarketableIds)
  /\ quiet' = 0
  /\ lastReply' = NoReply
  /\ UNCHANGED <<data, priceMap, priceLoading, selectedWorld, page,
                 priceFetches, entries, lastResult, allMarketableIds,
                 displayIds, pageItems, isPageLoading, isSearching, idsFetch,
                 searchFetches, itemFetches, priceFrom>>

\* time passes: the debounce delay
Tick ==
  /\ quiet < DEBOUNCE_MS \/ \E t \in timers : t.left > 0
  /\ timers' =
       {[t EXCEPT !.left = Max(0, t.left - DEBOUNCE_MS)] : t \in timers}
  /\ quiet' = Min(DEBOUNCE_MS, quiet + DEBOUNCE_MS)
  /\ lastReply' = NoReply
  /\ UNCHANGED <<data, priceMap, priceLoading, selectedWorld, page,
                 priceFetches, entries, lastResult, allMarketableIds,
                 displayIds, pageItems, isPageLoading, searchQuery,
                 isSearching, idsFetch, searchFetches, itemFetches, priceFrom>>

\* the timer callback for a blank query
TimerFiresBlank(t) ==
  /\ t \in timers
  /\ t.left = 0
  /\ Blank(t.q)
  /\ timers' = timers \ {t}
  /\ displayIds' = [src |-> "all", ids |-> t.all]
  /\ page' = 1
  /\ ViewEffect(displayIds' # displayIds \/ page' # page,
                displayIds', page', selectedWorld)
  /\ lastReply' = NoReply
  /\ UNCHANGED <<data, entries, lastResult, priceLoading, priceFetches,
                 selectedWorld, allMarketableIds, searchQuery, isSearching,
                 idsFetch, searchFetches, quiet>>

\* the timer callback for any other query, up to `await fetch(url)`
TimerFiresSearch(t) ==
  /\ t \in timers
  /\ t.left = 0
  /\ ~Blank(t.q)
  /\ BagCardinality(searchFetches) < MaxSearches
  /\ timers' = timers \ {t}
  /\ isSearching' = TRUE
  /\ searchFetches' = searchFetches (+) SetToBag({[q |-> t.q, all |-> t.all]})
  /\ lastReply' = NoReply
  /\ UNCHANGED <<data, priceMap, priceLoading, selectedWorld, page,
                 priceFetches, entries, lastResult, allMarketableIds,
                 displayIds, pageItems, isPageLoading, searchQuery, idsFetch,
                 itemFetches, priceFrom, quiet>>

\* r.row_id || r.id of the results from position i on, kept when typeof is
\* "number"; reading a null result raises
RECURSIVE FoundIds(_, _)
FoundIds(results, i) ==
  IF i > Len(results) THEN [threw |-> FALSE, ids |-> <<>>]
  ELSE IF Throws(results[i]) THEN [threw |-> TRUE, ids |-> <<>>]
  ELSE LET id == Or(Get(results[i], "row_id"), Get(results[i], "id"))
           rest == FoundIds(results, i + 1)
       IN [threw |-> rest.threw,
           ids |-> IF TypeOf(id) = "number" THEN <<id>> \o rest.ids
                   ELSE rest.ids]

\* mutant: the found identifiers stored without the filter
ValidIdsUnfiltered(foundIds, all) ==
  [i \in 1..Len(SelectSeq(foundIds, LAMBDA id : id.t = "num")) |->
     SelectSeq(foundIds, LAMBDA id : id.t = "num")[i].n]

\* foundIds.filter((id) => marketSet.has(id)) with marketSet = new Set(all)
ValidIds(foundIds, all) ==
  LET marketSet == {all[i] : i \in 1..Len(all)}
      valid == SelectSeq(foundIds,
                         LAMBDA id : id.t = "num" /\ id.n \in marketSet)
  IN [i \in 1..Len(valid) |-> valid[i].n]

\* lines 674-680 for the parsed body `data` and the allMarketableIds of the
\* closure: the identifiers to store, or a raise (data or a result is null,
\* or results has no map method)
SearchResult(body, all) ==
  IF Throws(body) THEN [threw |-> TRUE, ids |-> <<>>]
  ELSE LET results == Or(Get(body, "results"), Arr(<<>>)) IN
       IF ~IsArray(results) THEN [threw |-> TRUE, ids |-> <<>>]
       ELSE LET found == FoundIds(results.a, 1) IN
            [threw |-> found.threw, ids |-> ValidIds(found.ids, all)]

Result(pairs) == MkObj(pairs)

\* bodies of the search endpoint: hits by either spelling with one that is
\* not marketable and one that is not a number, no hits, a null result, and
\* the error object sent with a non-OK status
SearchHits ==
  MkObj(<< <<"results",
             Arr(<<Result(<< <<"row_id", Num(1)>> >>),
                   Result(<< <<"id", Num(PAGE_SIZE + 1)>> >>),
                   Result(<< <<"row_id", Num(PAGE_SIZE + 2)>> >>),
                   Result(<< <<"row_id", Str("x")>> >>)>>)>> >>)
SearchNoHits == MkObj(<< <<"results", Arr(<<>>)>> >>)
SearchNullHit == MkObj(<< <<"results", Arr(<<Null>>)>> >>)
ErrorBody == MkObj(<< <<"code", Num(1)>> >>)

SearchReplies ==
  {[ok |-> TRUE, body |-> SearchHits],
   [ok |-> TRUE, body |-> SearchNoHits],
   [ok |-> TRUE, body |-> SearchNullHit],
   [ok |-> FALSE, body |-> ErrorBody]}

\* mutant: the search result stored without setPage(1)
StoreSearchResultKeepingPage(validIds) ==
  /\ displayIds' = [src |-> "search", ids |-> validIds]
  /\ page' = page

\* setDisplayIds(validIds); setPage(1)
StoreSearchResult(validIds) ==
  /\ displayIds' = [src |-> "search", ids |-> validIds]
  /\ page' = 1

\* the status of a consumed reply
StatusOf(reply) == IF reply.ok THEN "ok" ELSE "notOk"

\* the timer callback from the resolved fetch on, for a body that parses;
\* the status of the reply is not looked at
SearchResponse(req, reply) ==
  /\ BagIn(req, searchFetches)
  /\ searchFetches' = searchFetches (-) SetToBag({req})
  /\ LET r == SearchResult(reply.body, req.all) IN
     /\ IF r.threw
          THEN UNCHANGED <<displayIds, page, viewVars>>
          ELSE /\ StoreSearchResult(r.ids)
               /\ ViewEffect(TRUE, displayIds', page', selectedWorld)
     /\ lastReply' = Noted(StatusOf(reply))
  /\ isSearching' = FALSE
  /\ UNCHANGED <<data, entries, lastResult, priceLoading, priceFetches,
                 selectedWorld, allMarketableIds, searchQuery, timers,
                 idsFetch, quiet>>

\* the timer callback for a rejected fetch or a body that is not JSON
SearchResponseFail(req) ==
  /\ BagIn(req, searchFetches)
  /\ searchFetches' = searchFetches (-) SetToBag({req})
  /\ isSearching' = FALSE
  /\ lastReply' = NoReply
  /\ UNCHANGED <<data, priceMap, priceLoading, selectedWorld, page,
                 priceFetches, entries, lastResult, allMarketableIds,
                 displayIds, pageItems, isPageLoading, searchQuery, timers,
                 idsFetch, itemFetches, priceFrom, quiet>>

\* goToPage(p)
GoToPage(p) ==
  /\ page' = Min(Max(1, p), totalPages)
  /\ ViewEffect(page' # page, displayIds, page', selectedWorld)
  /\ lastReply' = NoReply
  /\ UNCHANGED <<data, entries, lastResult, priceLoading, priceFetches,
                 selectedWorld, allMarketableIds, displayIds, searchQuery,
                 isSearching, timers, idsFetch, searchFetches, quiet>>

\* a click on a previous-page button, which is disabled on page 1 and,
\* either by its attribute or by not being rendered, while the page loads
ClickPrevious == page > 1 /\ ~isPageLoading /\ GoToPage(page - 1)

\* a click on a next-page button
ClickNext == page < totalPages /\ ~isPageLoading /\ GoToPage(page + 1)

\* onChange of the server select: setSelectedWorld(e.target.value)
SelectWorld(w) ==
  /\ w # selectedWorld
  /\ selectedWorld' = w
  /\ ViewEffect(TRUE, displayIds, page, w)
  /\ lastReply' = NoReply
  /\ UNCHANGED <<data, entries, lastResult, priceLoading, priceFetches, page,
                 allMarketableIds, displayIds, searchQuery, isSearching,
                 timers, idsFetch, searchFetches, quiet>>

\* (itemData.rows || []).map(row => ({id: row.row_id, name: row.fields.Name,
\* ...})) from position i on, as the ids; a null row or a row without
\* fields raises
RECURSIVE LoadedRows(_, _)
LoadedRows(rows, i) ==
  IF i > Len(rows) THEN [threw |-> FALSE, items |-> <<>>]
  ELSE IF Throws(rows[i]) \/ Throws(Get(rows[i], "fields"))
    THEN [threw |-> TRUE, items |-> <<>>]
  ELSE LET rest == LoadedRows(rows, i + 1) IN
       [threw |-> rest.threw,
        items |-> <<Get(rows[i], "row_id")>> \o rest.items]

LoadedItems(itemData) ==
  IF Throws(itemData) THEN [threw |-> TRUE, items |-> <<>>]
  ELSE LET rows == Or(Get(itemData, "rows"), Arr(<<>>)) IN
       IF ~IsArray(rows) THEN [threw |-> TRUE, items |-> <<>>]
       ELSE LoadedRows(rows.a, 1)

Row(id, fields) == MkObj(<< <<"row_id", Num(id)>>, <<"fields", fields>> >>)
Fields == MkObj(<< <<"Name", Str("n")>> >>)

\* bodies of the item-sheet endpoint for a request: the rows of its first
\* identifiers, a row without fields, and the error object
RowsFor(req) ==
  MkObj(<< <<"rows",
             Arr([i \in 1..Min(MaxRows, Len(req.ids)) |->
                    Row(req.ids[i], Fields)])>> >>)
RowWithoutFields(req) ==
  MkObj(<< <<"rows", Arr(<<Row(req.ids[1], Undef)>>)>> >>)

ItemReplies(req) ==
  {[ok |-> TRUE, body |-> RowsFor(req)],
   [ok |-> TRUE, body |-> RowWithoutFields(req)],
   [ok |-> FALSE, body |-> ErrorBody]}

\* fetchPageData from the resolved fetch on, for a body that parses; the
\* status of the reply is not looked at.  req holds the selectedWorld and
\* targetIds of the closure, which is never empty here
ItemResponse(req, reply) ==
  /\ BagIn(req, itemFetches)
  /\ itemFetches' = itemFetches (-) SetToBag({req})
  /\ LET r == LoadedItems(reply.body) IN
     /\ IF r.threw
          THEN UNCHANGED <<pageItems, priceLoading, priceFetches>>
          ELSE pageItems' = r.items /\ StartPriceFetch(req.world, req.ids)
     /\ lastReply' = Noted(StatusOf(reply))
  /\ isPageLoading' = FALSE
  /\ UNCHANGED <<data, entries, lastResult, priceMap, priceFrom,
                 selectedWorld, page, allMarketableIds, displayIds,
                 searchQuery, isSearching, timers, idsFetch, searchFetches,
                 quiet>>

\* fetchPageData for a rejected fetch or a body that is not JSON
ItemResponseFail(req) ==
  /\ BagIn(req, itemFetches)
  /\ itemFetches' = itemFetches (-) SetToBag({req})
  /\ isPageLoading' = FALSE
  /\ lastReply' = NoReply
  /\ UNCHANGED <<data, priceMap, priceLoading, selectedWorld, page,
                 priceFetches, entries, lastResult, allMarketableIds,
                 displayIds, pageItems, searchQuery, isSearching, timers,
                 idsFetch, searchFetches, priceFrom, quiet>>

\* bodies of the market-data endpoint for a request: one entry for its
\* first identifier with a listing on the requested world, and the same
\* followed by a null entry
PricesFor(req) ==
  ItemsArray(<<Entry(Num(req.ids[1]),
                     Arr(<<Listing(Num(1), Bool(FALSE), Str(req.world))>>),
                     Num(7))>>)
PricesWithNull(req) ==
  ItemsArray(<<Entry(Num(req.ids[1]),
                     Arr(<<Listing(Num(1), Bool(FALSE), Str(req.world))>>),
                     Num(7)),
               Null>>)

PriceBodies(req) == {PricesFor(req), PricesWithNull(req)}

\* fetchCurrentPrices from the resolved fetch on, for an OK response with
\* the given body
PriceResponse(req, body) ==
  /\ BagIn(req, priceFetches)
  /\ priceFetches' = priceFetches (-) SetToBag({req})
  /\ SetPriceMap(body)
  /\ priceLoading' = FALSE
  /\ priceFrom' = IF Reduce(body).threw THEN priceFrom ELSE req
  /\ lastReply' = NoReply
  /\ UNCHANGED <<data, entries, lastResult, selectedWorld, page, allMarketableIds, displayIds, pageItems,
                 isPageLoading, searchQuery, isSearching, timers, idsFetch,
                 searchFetches, itemFetches, quiet>>

\* fetchCurrentPrices for a rejected fetch or a body that is not JSON
\* ("error") or a non-OK status ("notOk")
PriceResponseFailed(req, status) ==
  /\ BagIn(req, priceFetches)
  /\ priceFetches' = priceFetches (-) SetToBag({req})
  /\ priceLoading' = FALSE
  /\ lastReply' = Noted(status)
  /\ UNCHANGED <<data, priceMap, selectedWorld, page, entries, lastResult,
                 allMarketableIds, displayIds, pageItems, isPageLoading,
                 searchQuery, isSearching, timers, idsFetch, searchFetches,
                 itemFetches, priceFrom, quiet>>

Failures == {"error", "notOk"}

UINext ==
  \/ InitIdsOk
  \/ \E status \in Failures : InitIdsFail(status)
  \/ \E q \in Queries : SetSearchQuery(q)
  \/ Tick
  \/ \E t \in timers : TimerFiresBlank(t)
  \/ \E t \in timers : TimerFiresSearch(t)
  \/ \E req \in BagToSet(searchFetches) :
       \E reply \in SearchReplies : SearchResponse(req, reply)
  \/ \E req \in BagToSet(searchFetches) : SearchResponseFail(req)
  \/ ClickPrevious
  \/ ClickNext
  \/ \E w \in Worlds : SelectWorld(w)
  \/ \E req \in BagToSet(itemFetches) :
       \E reply \in ItemReplies(req) : ItemResponse(req, reply)
  \/ \E req \in BagToSet(itemFetches) : ItemResponseFail(req)
  \/ \E req \in BagToSet(priceFetches) :
       \E body \in PriceBodies(req) : PriceResponse(req, body)
  \/ \E req \in BagToSet(priceFetches) :
       \E status \in Failures : PriceResponseFailed(req, status)

UISpec == UIInit /\ [][UINext]_vars

\* ---------------------------------------------------------- properties
\* The statements below describe the stored aggregates from the raw
\* response, by sets of prices and positions, not by the scan.

\* the latest run of the reducer stored its map
Stored == lastResult = "stored"

\* property k of object v, Undef when absent
Field(v, k) == IF v.t = "obj" /\ k \in DOMAIN v.f THEN v.f[k] ELSE Undef

\* the identifier the reducer reads: the first truthy of the three spellings
RawId(it) ==
  IF Truthy(Field(it, "itemID")) THEN Field(it, "itemID")
  ELSE IF Truthy(Field(it, "itemId")) THEN Field(it, "itemId")
  ELSE Field(it, "item_id")

\* the entry an aggregate stands for: the last entry carrying identifier id
EntryFor(id) ==
  LET is == {i \in 1..Len(entries) : RawId(entries[i]) = Num(id)}
  IN entries[CHOOSE i \in is : \A j \in is : j <= i]

\* the raw listing sequence of an entry
RawListings(it) ==
  IF Field(it, "listings").t = "arr" THEN Field(it, "listings").a ELSE <<>>

\* a listing's price passes the filter: a finite non-zero number
Accepted(l) == Field(l, "pricePerUnit").t = "num" /\ Field(l, "pricePerUnit").n # 0
PriceOf(l) == Field(l, "pricePerUnit").n
IsHQ(l) == Truthy(Field(l, "hq"))
IsNQ(l) == ~IsHQ(l)
AnyQuality(l) == TRUE

\* positions of the accepted listings of a category
AcceptedAt(ls, Q(_)) == {i \in 1..Len(ls) : Accepted(ls[i]) /\ Q(ls[i])}

\* the smallest accepted price of a category, 0 when there is none
MinPrice(ls, Q(_)) ==
  LET S == {PriceOf(ls[i]) : i \in AcceptedAt(ls, Q)}
  IN IF S = {} THEN 0 ELSE CHOOSE x \in S : \A y \in S : x <= y

\* C1: every stored aggregate has minNQ = the smallest accepted price among
\* the listings whose hq is falsy, minHQ = the smallest among those whose hq
\* is truthy, minAll = the smallest among all; so listings of the other
\* quality never move minNQ or minHQ.
C1_MinimaPerQuality ==
  Stored =>
    \A id \in DOMAIN priceMap :
      LET ls == RawListings(EntryFor(id)) IN
      /\ priceMap[id].minNQ = Num(MinPrice(ls, IsNQ))
      /\ priceMap[id].minHQ = Num(MinPrice(ls, IsHQ))
      /\ priceMap[id].minAll = Num(MinPrice(ls, AnyQuality))

\* the spec's example shape: a cheaper HQ listing first, a dearer NQ one after
C1_Witness ==
  /\ Stored
  /\ 1 \in DOMAIN priceMap
  /\ RawListings(EntryFor(1)) =
       <<Listing(Num(1), Bool(TRUE), Str("A")), Listing(Num(2), Bool(FALSE), Str("A"))>>
  /\ priceMap[1].minNQ = Num(2) /\ priceMap[1].minNQWorld = Str("A")
  /\ priceMap[1].minHQ = Num(1) /\ priceMap[1].minHQWorld = Str("A")
  /\ priceMap[1].minAll = Num(1) /\ priceMap[1].minAllWorld = Str("A")

\* C2: in every stored aggregate minAll <= minNQ when minNQ is nonzero and
\* minAll <= minHQ when minHQ is nonzero.
C2_OverallIsLowest ==
  Stored =>
    \A id \in DOMAIN priceMap :
      /\ priceMap[id].minNQ # Num(0) => priceMap[id].minAll.n <= priceMap[id].minNQ.n
      /\ priceMap[id].minHQ # Num(0) => priceMap[id].minAll.n <= priceMap[id].minHQ.n

\* both qualities present at different prices, a filtered-out listing between
C2_Witness ==
  /\ Stored
  /\ \E id \in DOMAIN priceMap :
       /\ priceMap[id].minNQ = Num(1)
       /\ priceMap[id].minHQ = Num(2)
       /\ priceMap[id].minAll = Num(1)
       /\ priceMap[id].listingsFetched = 3

\* the recorded origin of a listing: its worldName, "" when absent or falsy
WorldOf(l) == IF Truthy(Field(l, "worldName")) THEN Field(l, "worldName") ELSE Str("")

\* the earliest accepted listing of a category at the category's lowest price
FirstMinAt(ls, Q(_)) ==
  LET at == {i \in AcceptedAt(ls, Q) : PriceOf(ls[i]) = MinPrice(ls, Q)}
  IN CHOOSE i \in at : \A j \in at : i <= j

\* C3: on a price tie the first-seen listing wins: each recorded provenance
\* is the worldName of the earliest accepted listing of its category that
\* has the category's minimum price.
C3_FirstSeenWins ==
  Stored =>
    \A id \in DOMAIN priceMap :
      LET ls == RawListings(EntryFor(id)) IN
      /\ AcceptedAt(ls, IsNQ) # {} =>
           priceMap[id].minNQWorld = WorldOf(ls[FirstMinAt(ls, IsNQ)])
      /\ AcceptedAt(ls, IsHQ) # {} =>
           priceMap[id].minHQWorld = WorldOf(ls[FirstMinAt(ls, IsHQ)])
      /\ AcceptedAt(ls, AnyQuality) # {} =>
           priceMap[id].minAllWorld = WorldOf(ls[FirstMinAt(ls, AnyQuality)])

\* two NQ listings tie at the minimum, from different worlds, and the world
\* of the earlier one is recorded
C3_Witness ==
  /\ Stored
  /\ \E id \in DOMAIN priceMap :
       LET ls == RawListings(EntryFor(id)) IN
       \E i, j \in AcceptedAt(ls, IsNQ) :
         /\ i < j
         /\ PriceOf(ls[i]) = MinPrice(ls, IsNQ)
         /\ PriceOf(ls[j]) = MinPrice(ls, IsNQ)
         /\ WorldOf(ls[i]) = Str("B")
         /\ WorldOf(ls[j]) = Str("A")
         /\ priceMap[id].minNQWorld = Str("B")

\* the minima and provenances of an aggregate
Minima(info) ==
  <<info.minAll, info.minAllWorld, info.minNQ, info.minNQWorld,
    info.minHQ, info.minHQWorld>>

\* entry `it` with the listings that fail the price filter removed
WithoutSkipped(it) ==
  IF Field(it, "listings").t = "arr"
    THEN [it EXCEPT !.f.listings = Arr(SelectSeq(RawListings(it), Accepted))]
    ELSE it

\* C4: a listing is skipped exactly when its price, taken as a number (0
\* when it is not one), is zero or not finite; the skipped listings change
\* no minimum and no provenance, are counted in listingsFetched, and every
\* other listing takes part in the minima.
C4_SkippedListings ==
  Stored =>
    \A id \in DOMAIN priceMap :
      LET it == EntryFor(id)
          ls == RawListings(it)
      IN /\ priceMap[id].listingsFetched = Len(ls)
         /\ Minima(priceMap[id]) = Minima(ReduceEntry(WithoutSkipped(it)).info)
         /\ \A i \in AcceptedAt(ls, AnyQuality) :
              /\ priceMap[id].minAll # Num(0)
              /\ priceMap[id].minAll.n <= PriceOf(ls[i])
              /\ IsHQ(ls[i]) =>
                   /\ priceMap[id].minHQ # Num(0)
                   /\ priceMap[id].minHQ.n <= PriceOf(ls[i])
              /\ IsNQ(ls[i]) =>
                   /\ priceMap[id].minNQ # Num(0)
                   /\ priceMap[id].minNQ.n <= PriceOf(ls[i])

\* three listings, a zero price and a string price among them, one accepted
C4_Witness ==
  /\ Stored
  /\ \E id \in DOMAIN priceMap :
       LET ls == RawListings(EntryFor(id)) IN
       /\ priceMap[id].listingsFetched = 3
       /\ Cardinality(AcceptedAt(ls, AnyQuality)) = 1
       /\ \E i \in 1..Len(ls) : Field(ls[i], "pricePerUnit") = Num(0)
       /\ \E i \in 1..Len(ls) : Field(ls[i], "pricePerUnit") = Str("1")
       /\ priceMap[id].minAll = Num(2)

\* C5: listingsFetched is the length of the raw listing sequence,
\* lastUploadTime is the entry's, and an entry with no listings (an empty or
\* absent sequence) gives 0 listings, zero minima and empty provenances.
C5_CountAndTimestamp ==
  Stored =>
    \A id \in DOMAIN priceMap :
      LET it == EntryFor(id) IN
      /\ priceMap[id].listingsFetched = Len(RawListings(it))
      /\ priceMap[id].lastUploadTime = Field(it, "lastUploadTime")
      /\ RawListings(it) = <<>> =>
           /\ priceMap[id].listingsFetched = 0
           /\ Minima(priceMap[id]) =
                <<Num(0), Str(""), Num(0), Str(""), Num(0), Str("")>>

\* an entry without a listings property next to one whose two listings
\* include a filtered-out one
C5_Witness ==
  /\ Stored
  /\ \E id \in DOMAIN priceMap :
       /\ Field(EntryFor(id), "listings") = Undef
       /\ priceMap[id].listingsFetched = 0
       /\ priceMap[id].lastUploadTime = Num(7)
  /\ \E id \in DOMAIN priceMap :
       /\ priceMap[id].listingsFetched = 2
       /\ Cardinality(AcceptedAt(RawListings(EntryFor(id)), AnyQuality)) = 1
       /\ priceMap[id].lastUploadTime = Undef

\* C6: a minimum is 0 exactly when no listing of its category passed the
\* filter, a zero minimum has an empty provenance, and no minimum is the
\* unset value Infinity.
C6_ZeroMeansNoData ==
  Stored =>
    \A id \in DOMAIN priceMap :
      LET ls == RawListings(EntryFor(id))
          p == priceMap[id]
      IN /\ p.minAll.t = "num" /\ p.minNQ.t = "num" /\ p.minHQ.t = "num"
         /\ p.minAll = Num(0) <=> AcceptedAt(ls, AnyQuality) = {}
         /\ p.minNQ = Num(0) <=> AcceptedAt(ls, IsNQ) = {}
         /\ p.minHQ = Num(0) <=> AcceptedAt(ls, IsHQ) = {}
         /\ p.minAll = Num(0) => p.minAllWorld = Str("")
         /\ p.minNQ = Num(0) => p.minNQWorld = Str("")
         /\ p.minHQ = Num(0) => p.minHQWorld = Str("")

\* an entry whose only HQ listing has an infinite price, and an accepted NQ
\* listing: the HQ minimum is the zero sentinel, the NQ minimum is not
C6_Witness ==
  /\ Stored
  /\ \E id \in DOMAIN priceMap :
       LET ls == RawListings(EntryFor(id)) IN
       /\ \E i \in 1..Len(ls) : IsHQ(ls[i]) /\ Field(ls[i], "pricePerUnit") = Inf
       /\ priceMap[id].minHQ = Num(0)
       /\ priceMap[id].minHQWorld = Str("")
       /\ priceMap[id].minNQ # Num(0)

\* the latest price fetch got a body and ran the reducer on it
Ran == lastResult \in {"stored", "TypeError"}

\* an entry's identifier as the data model has it: the identifier property
\* that is present, in whichever spelling
PresentId(it) ==
  IF it.t = "obj" /\ "itemID" \in DOMAIN it.f THEN it.f.itemID
  ELSE IF it.t = "obj" /\ "itemId" \in DOMAIN it.f THEN it.f.itemId
  ELSE Field(it, "item_id")

\* C7 as stated: an entry is skipped exactly when its identifier is missing
\* or not a finite number, and every other entry has exactly one aggregate,
\* keyed by its identifier.
C7_SkipIffNoFiniteId ==
  Stored =>
    LET kept == {i \in 1..Len(entries) : PresentId(entries[i]).t = "num"} IN
    /\ DOMAIN priceMap = {PresentId(entries[i]).n : i \in kept}
    /\ Cardinality(DOMAIN priceMap) = Cardinality(kept)

\* C7, amended: an entry is skipped exactly when its identifier (the first
\* truthy of itemID, itemId, item_id) is missing, zero or not a finite
\* number; the stored map has exactly one aggregate per distinct identifier
\* of the other entries, keyed by it and computed from the last entry that
\* carries it.
C7_SkipIffNoUsableId ==
  Stored =>
    LET kept == {i \in 1..Len(entries) :
                   RawId(entries[i]).t = "num" /\ RawId(entries[i]).n # 0}
    IN /\ DOMAIN priceMap = {RawId(entries[i]).n : i \in kept}
       /\ \A id \in DOMAIN priceMap :
            /\ priceMap[id].listingsFetched = Len(RawListings(EntryFor(id)))
            /\ priceMap[id].lastUploadTime = Field(EntryFor(id), "lastUploadTime")
            /\ priceMap[id].minAll = Num(MinPrice(RawListings(EntryFor(id)), AnyQuality))

\* a batch whose first entry has identifier 0 and is skipped, and whose
\* second entry is stored under its identifier
C7_Witness ==
  /\ Stored
  /\ Len(entries) = 2
  /\ Field(entries[1], "itemID") = Num(0)
  /\ Field(entries[1], "item_id") = Undef
  /\ RawId(entries[2]) = Num(2)
  /\ DOMAIN priceMap = {2}

\* an entry the data model accepts: an object whose identifier is a nonzero
\* finite number and whose listings, if any, are objects
WellFormed(it) ==
  /\ it.t = "obj"
  /\ RawId(it).t = "num" /\ RawId(it).n # 0
  /\ \A i \in 1..Len(RawListings(it)) : RawListings(it)[i].t = "obj"

\* C8: the reducer never raises: whatever sequence the normalizer returns,
\* null entries and null listings included, the loop completes and the
\* aggregates of the well-formed entries of the batch are stored.
C8_ReducerNeverRaises ==
  Ran =>
    /\ lastResult = "stored"
    /\ \A i \in 1..Len(entries) :
         WellFormed(entries[i]) => RawId(entries[i]).n \in DOMAIN priceMap

\* C9 as stated: a mapping `items` gives its entry objects, a sequence
\* `items` gives itself, a bare object with an itemID or listings property
\* and no `items` gives the one-element sequence, anything else gives the
\* empty sequence.
C9_NormalizerByShape ==
  Ran =>
    entries =
      IF data.t = "obj" /\ "items" \in DOMAIN data.f
        THEN IF data.f.items.t = "obj"
               THEN SelectSeq(ObjectValues(data.f.items), LAMBDA v : v.t = "obj")
             ELSE IF data.f.items.t = "arr" THEN data.f.items.a
             ELSE <<>>
      ELSE IF data.t = "obj"
              /\ ("itemID" \in DOMAIN data.f \/ "listings" \in DOMAIN data.f)
        THEN <<data>>
      ELSE <<>>

\* C9, amended: a truthy `items` that is a sequence gives itself; any other
\* truthy `items` gives its own values whose typeof is "object" (objects,
\* arrays and null); a truthy body whose `items` is absent or falsy and
\* whose itemID or listings is truthy gives the one-element sequence;
\* anything else, null included, gives the empty sequence.
C9_NormalizerByTruthiness ==
  Ran =>
    entries =
      IF Truthy(data) /\ Truthy(Field(data, "items"))
        THEN IF Field(data, "items").t = "arr" THEN Field(data, "items").a
             ELSE IF Field(data, "items").t = "obj"
               THEN SelectSeq(ObjectValues(Field(data, "items")),
                              LAMBDA v : v.t \in {"obj", "arr", "null"})
             ELSE <<>>
      ELSE IF Truthy(data)
              /\ (Truthy(Field(data, "itemID")) \/ Truthy(Field(data, "listings")))
        THEN <<data>>
      ELSE <<>>

\* a mapping of two entries normalized to a two-element sequence
C9_Witness ==
  /\ Stored
  /\ Field(data, "items").t = "obj"
  /\ Len(Field(data, "items").keys) = 2
  /\ Len(entries) = 2
  /\ Cardinality(DOMAIN priceMap) = 2

\* C10: the stored map is a function of the response alone: whatever map,
\* page, world and loading flag the state held before, and however often
\* the same response was reduced before, the map is the reduction of it.
C10_PureReduction ==
  Stored => priceMap = Reduce(data).map

\* a view that held the aggregates of another world and page now holds
\* those of the response and none of the earlier ones, while a further
\* fetch of the same response is in flight
C10_Witness ==
  /\ Stored
  /\ page = 2
  /\ selectedWorld = "Ifrit"
  /\ priceMap # EmptyMap
  /\ 3 \notin DOMAIN priceMap
  /\ priceLoading

\* some listing of category Q in ls has price m and recorded origin w
FromOneListing(ls, Q(_), m, w) ==
  \E i \in AcceptedAt(ls, Q) : Num(PriceOf(ls[i])) = m /\ WorldOf(ls[i]) = w

\* C18: price and provenance come from the same listing: for each nonzero
\* minimum the entry has a listing of the matching category with that price
\* and with that worldName ("" when absent).
C18_PriceAndProvenanceTogether ==
  Stored =>
    \A id \in DOMAIN priceMap :
      LET ls == RawListings(EntryFor(id))
          p == priceMap[id]
      IN /\ p.minAll # Num(0) => FromOneListing(ls, AnyQuality, p.minAll, p.minAllWorld)
         /\ p.minNQ # Num(0) => FromOneListing(ls, IsNQ, p.minNQ, p.minNQWorld)
         /\ p.minHQ # Num(0) => FromOneListing(ls, IsHQ, p.minHQ, p.minHQWorld)

\* three minima from three different places: the overall and NQ minimum
\* from the second listing, the HQ minimum from the first, and a listing
\* without worldName elsewhere
C18_Witness ==
  /\ Stored
  /\ \E id \in DOMAIN priceMap :
       LET ls == RawListings(EntryFor(id)) IN
       /\ Len(ls) = 3
       /\ priceMap[id].minHQ = Num(2) /\ priceMap[id].minHQWorld = Str("B")
       /\ priceMap[id].minNQ = Num(1) /\ priceMap[id].minNQWorld = Str("")
       /\ priceMap[id].minAll = Num(1) /\ priceMap[id].minAllWorld = Str("")
       /\ IsHQ(ls[1])

\* ------------------------------------------------- properties of the page
\* The statements below are about UISpec.

\* the view (item batch or server) changes in this step
ViewChanges ==
  displayIds' # displayIds \/ page' # page \/ selectedWorld' # selectedWorld

\* C11: whenever displayIds, page or the selected server changes, the price
\* map is empty once the change has been processed, an empty new batch
\* included.
C11_DiscardedOnChange == [][ViewChanges => priceMap' = EmptyMap]_vars

\* C12: no fencing, last write wins: the price map is the reduction of the
\* body of the price response that was stored last, whatever page and world
\* are selected by then and whatever was stored before.
C12_LastWriteWins ==
  priceFrom # NoRequest => priceMap = Reduce(PricesFor(priceFrom)).map

\* nothing is in flight and the map shows another world than the selected
\* one: the response of the world the user left came last
C12_Witness ==
  /\ priceFrom # NoRequest
  /\ priceMap # EmptyMap
  /\ priceFrom.world # selectedWorld
  /\ priceFetches = EmptyBag
  /\ itemFetches = EmptyBag
  /\ ~isPageLoading

\* a pending timer fires in this step
TimerRuns == timers # {} /\ timers' = {}

\* a search request is sent in this step
SearchSent == BagCardinality(searchFetches') > BagCardinality(searchFetches)

\* C13: the debounce.  At most one timer is pending and it belongs to the
\* current searchQuery and allMarketableIds, every change of either starts
\* it afresh with the full delay; a search request is sent only by the
\* timer, for the current non-blank query, once that query has been
\* unchanged for DEBOUNCE_MS; the timer of a blank query sends nothing and
\* sets displayIds to allMarketableIds and page to 1.
C13_Debounce ==
  [][/\ Cardinality(timers') <= 1
     /\ (searchQuery' # searchQuery \/ allMarketableIds' # allMarketableIds)
          => timers' = {[q |-> searchQuery', all |-> allMarketableIds',
                         left |-> DEBOUNCE_MS]}
     /\ SearchSent
          => /\ TimerRuns
             /\ quiet = DEBOUNCE_MS
             /\ ~Blank(searchQuery)
             /\ searchFetches' = searchFetches (+)
                  SetToBag({[q |-> searchQuery, all |-> allMarketableIds]})
     /\ (TimerRuns /\ Blank(searchQuery))
          => /\ searchFetches' = searchFetches
             /\ displayIds'.ids = allMarketableIds
             /\ page' = 1]_vars

\* a search is in flight and the query has been changed to a blank one
\* since, which has its own timer pending
C13_Witness ==
  /\ \E req \in BagToSet(searchFetches) : req.q = <<"a">>
  /\ searchQuery = <<" ">>
  /\ \E t \in timers : t.q = <<" ">> /\ t.left = 0
  /\ allMarketableIds = Catalogue

\* C14: every identifier in displayIds is in allMarketableIds.
C14_DisplayIdsMarketable ==
  \A i \in 1..Len(displayIds.ids) :
    \E j \in 1..Len(allMarketableIds) : displayIds.ids[i] = allMarketableIds[j]

\* a search stored its hits, without the hit that is not marketable
C14_Witness ==
  /\ displayIds.src = "search"
  /\ displayIds.ids = <<1, PAGE_SIZE + 1>>

\* C15: a request that fails with a non-OK status leaves displayIds,
\* pageItems and priceMap as they were.
C15_FailedRequestWritesNothing ==
  [][lastReply' = "notOk" => UNCHANGED <<displayIds, pageItems, priceMap>>]_vars

\* C16: 1 <= page <= totalPages.
C16_PageInRange == 1 <= page /\ page <= totalPages

\* a search result of one page stored while the rows of page 2 are shown
C16_Witness ==
  /\ displayIds.src = "search"
  /\ Len(displayIds.ids) <= PAGE_SIZE
  /\ page = 1
  /\ pageItems = <<Num(PAGE_SIZE + 1)>>

\* C17: priceLoading is true exactly when a price fetch is in flight.
C17_LoadingIffInFlight == priceLoading <=> priceFetches # EmptyBag

====
